---- MODULE Spec2Model ----
(***************************************************************************)
(* Model of the customer-support chatbot (src/main.py, with its memory-less *)
(* variant src/src/*.py): the persistent user memory, the conversation      *)
(* history, the name extractor and the completion client.                   *)
(*                                                                          *)
(* Text is modelled character by character: a Python str is a TLA+ string,  *)
(* indexed with SubSeq.                                                     *)
(***************************************************************************)
EXTENDS Integers, Sequences, FiniteSets, TLC

(***************************************************************************)
(* Bounds of the model.                                                     *)
(***************************************************************************)
\* longest history a send may start from
MaxHistory == 3
\* wall-clock readings datetime.now() may return
MaxClock == 1

(***************************************************************************)
(* Python str operations used by the program.                               *)
(***************************************************************************)
Char(s, i) == SubSeq(s, i, i)

\* str.lower() / str.upper() on one character (ASCII letters)
ToLower ==
    [c \in {"A","B","C","D","E","F","G","H","I","J","K","L","M",
            "N","O","P","Q","R","S","T","U","V","W","X","Y","Z"} |->
        CASE c = "A" -> "a" [] c = "B" -> "b" [] c = "C" -> "c" [] c = "D" -> "d"
          [] c = "E" -> "e" [] c = "F" -> "f" [] c = "G" -> "g" [] c = "H" -> "h"
          [] c = "I" -> "i" [] c = "J" -> "j" [] c = "K" -> "k" [] c = "L" -> "l"
          [] c = "M" -> "m" [] c = "N" -> "n" [] c = "O" -> "o" [] c = "P" -> "p"
          [] c = "Q" -> "q" [] c = "R" -> "r" [] c = "S" -> "s" [] c = "T" -> "t"
          [] c = "U" -> "u" [] c = "V" -> "v" [] c = "W" -> "w" [] c = "X" -> "x"
          [] c = "Y" -> "y" [] c = "Z" -> "z"]

UpperChars == DOMAIN ToLower

LowerChars == {ToLower[c] : c \in UpperChars}

ToUpper == [c \in LowerChars |-> CHOOSE u \in UpperChars : ToLower[u] = c]

LowerChar(c) == IF c \in UpperChars THEN ToLower[c] ELSE c

UpperChar(c) == IF c \in LowerChars THEN ToUpper[c] ELSE c

\* str.lower()
RECURSIVE Lower(_)
Lower(s) ==
    IF Len(s) = 0 THEN s
    ELSE LowerChar(Char(s, 1)) \o Lower(SubSeq(s, 2, Len(s)))

\* str.capitalize(): first character upper-cased, all the others lower-cased
Capitalize(s) ==
    IF Len(s) = 0 THEN s
    ELSE UpperChar(Char(s, 1)) \o Lower(SubSeq(s, 2, Len(s)))

\* str.isalpha(): non-empty and every character a letter
IsAlpha(s) ==
    /\ Len(s) > 0
    /\ \A i \in 1..Len(s) : Char(s, i) \in UpperChars \cup LowerChars

\* characters str.split() and str.strip() treat as whitespace
Whitespace == {" ", "\t", "\n", "\r"}

\* str.lstrip(chars) / str.rstrip(chars) / str.strip(chars)
RECURSIVE LStrip(_, _)
LStrip(s, chars) ==
    IF Len(s) > 0 /\ Char(s, 1) \in chars
    THEN LStrip(SubSeq(s, 2, Len(s)), chars)
    ELSE s

RECURSIVE RStrip(_, _)
RStrip(s, chars) ==
    IF Len(s) > 0 /\ Char(s, Len(s)) \in chars
    THEN RStrip(SubSeq(s, 1, Len(s) - 1), chars)
    ELSE s

Strip(s, chars) == RStrip(LStrip(s, chars), chars)

\* positions (1-based) at which pattern p occurs in s
Occurrences(s, p) ==
    {i \in 1..(Len(s) - Len(p) + 1) : SubSeq(s, i, i + Len(p) - 1) = p}

\* p in s
Contains(s, p) == Occurrences(s, p) # {}

\* s.index(p), 0-based as in Python; only used when p in s
Index(s, p) ==
    (CHOOSE i \in Occurrences(s, p) : \A j \in Occurrences(s, p) : i <= j) - 1

\* s[start:], start 0-based
Slice(s, start) == SubSeq(s, start + 1, Len(s))

\* s.split(): the whitespace-separated words of s
RECURSIVE Split(_)
Split(s) ==
    LET t == LStrip(s, Whitespace)
        ends == {i \in 1..Len(t) : Char(t, i) \in Whitespace}
        n == IF ends = {} THEN Len(t)
             ELSE (CHOOSE i \in ends : \A j \in ends : i <= j) - 1
    IN  IF Len(t) = 0 THEN <<>>
        ELSE <<SubSeq(t, 1, n)>> \o Split(SubSeq(t, n + 1, Len(t)))

(***************************************************************************)
(* Values of the environment the operations draw their inputs from.         *)
(***************************************************************************)
\* texts a caller passes to send_message
Texts == {"", " \t", "hello", "my name is bob"}

\* lines typed at the prompt of main
Lines ==
    {"", "  ", "/reset", " /Reset ", "/export", "/memory", "/forget", "/quit",
     "/EXIT", "hello", " /help"}

\* answers typed at the confirmation prompt of /forget
Confirms == {"yes", "YES", "no", " yes"}

\* values of os.environ.get("OPENAI_API_KEY"): <<>> for None
ApiKeys == {<<>>, <<"">>, <<"sk-test">>}

\* texts with introduction phrases a caller passes to send_message
PhraseTexts ==
    {"Hi, my name is Carlos", "I am 7", "im bob!", "i'm bob!",
     "my name is 7, call me Bob", "this is Al, my name is Bo",
     "my name is ?bob", "call me McDonald", "my name is ", "call me X",
     "I AM BOB", "hi am ed", "my name is  Bob.", "i am a. call me Al",
     "my name is Bob my name is Al", "this is bob-smith", "call me ...",
     "this is it", "hello"}

\* every text a caller passes to send_message: main passes the line stripped
SentTexts == Texts \cup PhraseTexts \cup {Strip(l, Whitespace) : l \in Lines}

\* reply texts the endpoint puts in choices[0].message.content
Replies == {"Hi!"}

\* HTTP error statuses response.raise_for_status() raises on
ErrorStatuses == {401, 429, 500}

\* datetime.now() readings
Timestamps == 1..MaxClock

\* how a write of a file ends: written, or OSError from makedirs/open (the
\* file keeps its old content), or OSError while the content is written
\* (open(..., 'w') has already truncated the file)
WriteOutcomes == {"ok", "open_error", "write_error"}

\* bodies of a success (2xx) response, by the shape response.json() yields:
\*   ok            {"choices": [{"message": {"content": c}}]}
\*   no_choices    {}
\*   empty_choices {"choices": []}
\*   no_message    {"choices": [{}]}
\*   no_content    {"choices": [{"message": {}}]}
\*   null          null
\*   array         []
Bodies ==
    [shape : {"ok"}, content : Replies]
    \cup [shape : {"no_choices", "empty_choices", "no_message", "no_content",
                   "null", "array"},
          content : {""}]

(***************************************************************************)
(* UserMemory                                                               *)
(***************************************************************************)
\* a Python dict: a function from its keys
EmptyDict == [k \in {} |-> 0]

DictSet(d, k, v) == [x \in DOMAIN d \cup {k} |-> IF x = k THEN v ELSE d[x]]

\* json.dump of a str: the characters of the texts of this model that JSON
\* writes as an escape
JsonEscapeChar(c) ==
    CASE c = "\"" -> "\\\""
      [] c = "\\" -> "\\\\"
      [] c = "\n" -> "\\n"
      [] c = "\r" -> "\\r"
      [] c = "\t" -> "\\t"
      [] OTHER -> c

\* json.dump escapes each character by itself
RECURSIVE JsonEscape(_)
JsonEscape(s) ==
    IF Len(s) = 0 THEN ""
    ELSE IF Len(s) = 1 THEN JsonEscapeChar(s)
    ELSE LET h == Len(s) \div 2
         IN JsonEscape(SubSeq(s, 1, h)) \o JsonEscape(SubSeq(s, h + 1, Len(s)))

\* the JSON string literal json.dump writes for a str
JsonString(s) == "\"" \o JsonEscape(s) \o "\""

\* the number of backslashes in a row that end right before position i
BackslashesBefore(t, i) ==
    CHOOSE k \in 0..(i - 1) :
        /\ \A m \in (i - k)..(i - 1) : Char(t, m) = "\\"
        /\ k = i - 1 \/ Char(t, i - k - 1) # "\\"

\* what the character at position i of the inside of a string literal
\* denotes: <<>> when it is not valid there (a raw quote or control
\* character, an unknown or unfinished escape), <<"">> for the backslash
\* that opens an escape, <<c>> for the character denoted
JsonPiece(t, i) ==
    LET c == Char(t, i)
    IN  IF BackslashesBefore(t, i) % 2 = 1
        THEN CASE c = "\"" -> <<"\"">>
               [] c = "\\" -> <<"\\">>
               [] c = "/" -> <<"/">>
               [] c = "n" -> <<"\n">>
               [] c = "r" -> <<"\r">>
               [] c = "t" -> <<"\t">>
               [] OTHER -> <<>>
        ELSE IF c = "\\" THEN (IF i = Len(t) THEN <<>> ELSE <<"">>)
        ELSE IF c \in {"\"", "\n", "\r", "\t"} THEN <<>>
        ELSE <<c>>

RECURSIVE JsonJoin(_, _, _)
JsonJoin(t, lo, hi) ==
    IF lo > hi THEN ""
    ELSE IF lo = hi THEN JsonPiece(t, lo)[1]
    ELSE LET mid == (lo + hi) \div 2
         IN JsonJoin(t, lo, mid) \o JsonJoin(t, mid + 1, hi)

\* json.load of the inside of a string literal: <<>> when it is not valid,
\* <<s>> for the str it denotes
JsonUnescape(t) ==
    IF \E i \in 1..Len(t) : JsonPiece(t, i) = <<>> THEN <<>>
    ELSE <<JsonJoin(t, 1, Len(t))>>

\* json.load of a string literal: <<>> when the text is not one
JsonParseString(t) ==
    IF Len(t) >= 2 /\ Char(t, 1) = "\"" /\ Char(t, Len(t)) = "\""
    THEN JsonUnescape(SubSeq(t, 2, Len(t) - 1))
    ELSE <<>>

\* the memory file: absent, unparsable, or holding the text of a JSON object
\* (data: its members, the name as the string literal in the file, the time
\* of the update as the clock reading)
AbsentFile == [state |-> "absent", data |-> EmptyDict]

CorruptFile == [state |-> "corrupt", data |-> EmptyDict]

JsonFile(d) == [state |-> "json", data |-> d]

\* json.dump(self.memory, f, indent=2)
JsonDumpMemory(mem) ==
    [k \in DOMAIN mem |->
        IF k = "user_name" THEN JsonString(mem[k]) ELSE mem[k]]

\* a memory file holding JSON that is not an object: the array []
ArrayFile == [state |-> "json_array", data |-> EmptyDict]

\* what json.load returns for the array: a list, which is not a dict
NotADict == [not_a_dict |-> "[]"]

IsDict(mem) == "not_a_dict" \notin DOMAIN mem

\* memory files holding a JSON object, absent or unparsable, which a session
\* may find at startup
InitialFiles ==
    {AbsentFile, CorruptFile, JsonFile(EmptyDict),
     JsonFile([user_name |-> "\"Ann\"", last_updated |-> 0])}

\* UserMemory._load_memory: the empty dict when the file is absent or
\* json.load raises, otherwise whatever json.load returns
LoadMemory(f) ==
    IF f.state = "json_array" THEN NotADict
    ELSE IF f.state # "json" THEN EmptyDict
    ELSE IF "user_name" \in DOMAIN f.data
            /\ JsonParseString(f.data["user_name"]) = <<>>
         THEN EmptyDict
         ELSE [k \in DOMAIN f.data |->
                 IF k = "user_name" THEN JsonParseString(f.data[k])[1]
                 ELSE f.data[k]]

\* UserMemory._save_memory: the file after the write, by how the write ends
SaveMemory(f, mem, w) ==
    CASE w = "ok" -> JsonFile(JsonDumpMemory(mem))
      [] w = "open_error" -> f
      [] w = "write_error" -> CorruptFile

\* UserMemory.get_user_name: <<>> for None, <<name>> for a stored name
GetUserName(mem) ==
    IF "user_name" \in DOMAIN mem THEN <<mem["user_name"]>> ELSE <<>>

\* UserMemory.set_user_name, the assignments before the save
SetUserName(mem, name, now) ==
    DictSet(DictSet(mem, "user_name", name), "last_updated", now)

\* UserMemory.get_memory_summary
GetMemorySummary(mem) ==
    IF "user_name" \in DOMAIN mem /\ mem["user_name"] # ""
    THEN "The user's name is " \o mem["user_name"] \o "."
    ELSE ""

(***************************************************************************)
(* ConversationManager                                                      *)
(***************************************************************************)
\* the fixed template of the system prompt (its first sentence stands for
\* the whole text)
BasePrompt ==
    "You are Alexa, a helpful and professional customer support assistant."

\* label of the remembered-facts block
MemoryLabel == "\n\nREMEMBERED INFORMATION:\n"

\* ConversationManager._default_system_prompt
DefaultSystemPrompt(mem) ==
    IF GetMemorySummary(mem) # ""
    THEN BasePrompt \o MemoryLabel \o GetMemorySummary(mem)
    ELSE BasePrompt

Message(role, content) == [role |-> role, content |-> content]

\* ConversationManager.__init__ and the list reset() builds
FreshMessages(mem) == <<Message("system", DefaultSystemPrompt(mem))>>

\* introduction phrases, in the order the extractor tries them
Patterns == <<"my name is ", "i'm ", "i am ", "call me ", "this is ">>

\* punctuation stripped from the candidate word
Punctuation == {".", ",", "!", "?"}

\* words = message[start:].split() for the first occurrence of the pattern
WordsAfter(message, pattern) ==
    Split(Slice(message, Index(Lower(message), pattern) + Len(pattern)))

\* variant: only trailing punctuation is stripped
CandidateNameTrailing(word) == Capitalize(RStrip(word, Punctuation))

\* name = words[0].strip('.,!?').capitalize()
CandidateName(word) == Capitalize(Strip(word, Punctuation))

\* len(name) > 1 and name.isalpha()
AcceptName(name) == Len(name) > 1 /\ IsAlpha(name)

\* variant: the loop has no break after set_user_name
RECURSIVE ExtractFromNoBreak(_, _)
ExtractFromNoBreak(message, i) ==
    IF i > Len(Patterns) THEN <<>>
    ELSE IF /\ Contains(Lower(message), Patterns[i])
            /\ WordsAfter(message, Patterns[i]) # <<>>
            /\ AcceptName(CandidateName(WordsAfter(message, Patterns[i])[1]))
         THEN <<CandidateName(WordsAfter(message, Patterns[i])[1])>>
              \o ExtractFromNoBreak(message, i + 1)
         ELSE ExtractFromNoBreak(message, i + 1)

\* the loop of _extract_user_name from pattern i on: the names it passes to
\* set_user_name, in order
RECURSIVE ExtractFrom(_, _)
ExtractFrom(message, i) ==
    IF i > Len(Patterns) THEN <<>>
    ELSE IF /\ Contains(Lower(message), Patterns[i])
            /\ WordsAfter(message, Patterns[i]) # <<>>
            /\ AcceptName(CandidateName(WordsAfter(message, Patterns[i])[1]))
         THEN <<CandidateName(WordsAfter(message, Patterns[i])[1])>>
         ELSE ExtractFrom(message, i + 1)

\* ConversationManager._extract_user_name
ExtractUserName(message) == ExtractFrom(message, 1)

\* _extract_user_name on each text a caller passes
NamesIn == [t \in SentTexts |-> ExtractUserName(t)]

\* variant: only the empty text is rejected (not user_message)
BlankTextsEmptyOnly == {t \in SentTexts : t = ""}

\* not user_message.strip(), on each text a caller passes
BlankTexts == {t \in SentTexts : Strip(t, Whitespace) = ""}

\* the set_user_name calls of one extraction applied to the memory and the
\* file; a save that raises ends the extraction
RECURSIVE ApplySetCalls(_, _, _, _, _)
ApplySetCalls(mem, f, names, now, w) ==
    IF names = <<>> THEN [memory |-> mem, file |-> f, raised |-> FALSE]
    ELSE LET m2 == SetUserName(mem, Head(names), now)
             f2 == SaveMemory(f, m2, w)
         IN  IF w # "ok" THEN [memory |-> m2, file |-> f2, raised |-> TRUE]
             ELSE ApplySetCalls(m2, f2, Tail(names), now, w)

\* variant: the failed send forgets the rollback
PopNothing(msgs) == msgs

\* variant: the rollback removes the message before the user message too
PopTwice(msgs) == SubSeq(msgs, 1, Len(msgs) - 2)

\* self.conversation.messages.pop()
Pop(msgs) == SubSeq(msgs, 1, Len(msgs) - 1)

\* variant: the reply is returned without being recorded
AddAssistantNothing(msgs, content) == msgs

\* ConversationManager.add_assistant_message
AddAssistantMessage(msgs, content) == Append(msgs, Message("assistant", content))

(***************************************************************************)
(* OpenAIChatbot                                                            *)
(***************************************************************************)
\* response_data['choices'][0]['message']['content']: the value, or the
\* exception the subscripting raises
ReplyLookup(body) ==
    CASE body.shape = "ok" -> "content"
      [] body.shape = "no_choices" -> "KeyError"
      [] body.shape = "empty_choices" -> "IndexError"
      [] body.shape = "no_message" -> "KeyError"
      [] body.shape = "no_content" -> "KeyError"
      [] body.shape = "array" -> "TypeError"

\* datetime.now().strftime("%Y%m%d_%H%M%S"): the clock reading n is the
\* n-th second of one day
Digits == <<"0", "1", "2", "3", "4", "5", "6", "7", "8", "9">>

Strftime(now) ==
    "20260101_0000" \o Digits[((now \div 10) % 10) + 1] \o Digits[(now % 10) + 1]

\* the filename export_conversation generates when it is given none
ExportPath(now) == "data/conversations/conversation_" \o Strftime(now) \o ".json"

\* the names a memory record of this model may hold
StoredNames ==
    {"Ann"} \cup UNION {{NamesIn[t][i] : i \in 1..Len(NamesIn[t])} : t \in SentTexts}

\* the system prompt of the variant without a memory store (its first two
\* lines stand for the whole text)
PlainPrompt ==
    "You are a helpful and professional customer support assistant. \nYour role is to:"

\* every str a message of this model may hold
MessageTexts ==
    {"system", "user", "assistant", BasePrompt, PlainPrompt}
    \cup {DefaultSystemPrompt([user_name |-> n]) : n \in StoredNames}
    \cup SentTexts \cup Replies

\* the string literals json.dump writes for them
JsonStringOf == [s \in MessageTexts |-> JsonString(s)]

\* json.dump(self.messages, f, indent=2, ensure_ascii=False): the text of
\* the file as the array of its objects, each member a string literal
JsonDumpMessages(msgs) ==
    [i \in 1..Len(msgs) |->
        [role |-> JsonStringOf[msgs[i].role],
         content |-> JsonStringOf[msgs[i].content]]]

\* variant: a failed export is reported like a successful one
ExportReportSwallowed(ok, path) == "Conversation exported to: " \o path

\* what export_conversation prints, by whether the export raised
ExportReport(ok, path) ==
    IF ok THEN "Conversation exported to: " \o path
    ELSE "ERROR: Failed to export: "

\* the reply message send_message returns when the text is blank
EnterValidMessage == "Please enter a valid message."

\* what _extract_user_name prints after each set_user_name that returned
RECURSIVE MemoryUpdatedLines(_)
MemoryUpdatedLines(names) ==
    IF names = <<>> THEN <<>>
    ELSE <<"\n[Memory Updated: User name saved as '" \o Head(names) \o "']\n">>
         \o MemoryUpdatedLines(Tail(names))

\* what _make_api_request prints when requests.post raises Timeout
TimeoutDiagnostic == "ERROR: Request timed out. Please try again."

\* variant: the 429 branch is missing, the status falls to the generic one
HTTPErrorDiagnosticNo429(status) ==
    CASE status = 401 -> "ERROR: Invalid API key."
      [] OTHER -> "ERROR: HTTP error: "

\* what _make_api_request prints on HTTPError, by response.status_code (the
\* generic message ends with the text of the exception)
HTTPErrorDiagnostic(status) ==
    CASE status = 401 -> "ERROR: Invalid API key."
      [] status = 429 -> "ERROR: Rate limit exceeded."
      [] OTHER -> "ERROR: HTTP error: "

\* what _make_api_request prints on another RequestException (followed by
\* the text of the exception)
NetworkDiagnostic == "ERROR: Network error: "

\* what send_message prints on KeyError or IndexError (followed by the text
\* of the exception)
UnexpectedResponseDiagnostic == "ERROR: Unexpected API response: "

VARIABLES
    apiKey,     \* ChatbotConfig.api_key (<<>> for None)
    memory,     \* UserMemory.memory
    file,       \* the memory file data/user_memory.json
    messages,   \* ConversationManager.messages (<<>> before construction)
    pc,         \* "idle" (in main: at the prompt), "request" while
                \* requests.post is in flight; in main also "start" before
                \* the chatbot is constructed, "exited", "crashed"
    request,    \* the messages of the payload in flight (<<>> when idle)
    last,       \* the call made last: its arguments, pre-state and outcome
    clean,      \* only successful sends since construction or the last reset
    turns       \* the (user, assistant) texts of those sends, in order

vars == <<apiKey, memory, file, messages, pc, request, last, clean, turns>>

\* the record of a call; printed holds the lines the call has printed
Call(op, text, outcome, returned, raised, requests, setCalls) ==
    [op |-> op, text |-> text, outcome |-> outcome, returned |-> returned,
     raised |-> raised, requests |-> requests, setCalls |-> setCalls,
     printed |-> <<>>, written |-> <<>>, before |-> messages,
     memBefore |-> memory, fileBefore |-> file, line |-> <<>>]

\* the record of a call main makes for the lines it read (ln: <<>> when the
\* call is not made by main, otherwise the line read at the prompt, followed
\* by the answer to the confirmation prompt if there was one)
From(ln, call) == [call EXCEPT !.line = ln]

\* the outcome of the call in `last` filled in when the call ends
Ended(outcome, returned, raised) ==
    [last EXCEPT !.outcome = outcome, !.returned = returned, !.raised = raised]

\* a record of a call with the lines it printed added
Printing(call, lines) == [call EXCEPT !.printed = call.printed \o lines]

\* variant: validate accepts every configuration
ValidateAlways(key) == TRUE

\* ChatbotConfig.validate
Validate(key) == key # <<>> /\ key[1] # ""

\* a constructed chatbot with a valid configuration
Init ==
    /\ apiKey \in {k \in ApiKeys : Validate(k)}
    /\ file \in InitialFiles
    /\ memory = LoadMemory(file)
    /\ messages = FreshMessages(memory)
    /\ pc = "idle"
    /\ request = <<>>
    /\ last = [op |-> "init", text |-> "", outcome |-> "none", returned |-> <<>>,
               raised |-> FALSE, requests |-> 0, setCalls |-> <<>>,
               printed |-> <<>>, written |-> <<>>, before |-> messages, memBefore |-> memory,
               fileBefore |-> file, line |-> <<>>]
    /\ clean = TRUE
    /\ turns = <<>>

\* send_message with a blank text: returns the prompt for input
SendBlank ==
    \E text \in Texts :
        /\ pc = "idle"
        /\ text \in BlankTexts
        /\ last' = Call("send", text, "blank", <<EnterValidMessage>>, FALSE, 0, <<>>)
        /\ clean' = FALSE
        /\ turns' = <<>>
        /\ UNCHANGED <<apiKey, memory, file, messages, pc, request>>

\* send_message with a non-blank text, up to requests.post: the user message
\* is appended, the name extractor runs, and either a save raises out of
\* send_message or the request is issued
\* (the clock reading and the write outcome are inputs only when a name is
\* stored)
\* variant: appending a user message rebuilds the system message from the
\* memory record
AddUserMessageRefreshing(msgs, content) ==
    Append(<<Message("system", DefaultSystemPrompt(memory))>> \o Tail(msgs),
           Message("user", content))

\* ConversationManager.add_user_message, the append
AddUserMessage(msgs, content) == Append(msgs, Message("user", content))

SendCall(ln, text, now, w, maxLen) ==
    LET names == NamesIn[text]
        r == ApplySetCalls(memory, file, names, now, w)
    IN  /\ pc = "idle"
        /\ Len(messages) <= maxLen
        /\ text \notin BlankTexts
        /\ names = <<>> => (w = "ok" /\ now = 1)
        /\ messages' = AddUserMessage(messages, text)
        /\ memory' = r.memory
        /\ file' = r.file
        /\ IF r.raised
           THEN /\ pc' = "idle"
                /\ request' = <<>>
                /\ last' = From(ln, Call("send", text, "save_error", <<>>, TRUE, 0, names))
                /\ clean' = FALSE
                /\ turns' = <<>>
           ELSE /\ pc' = "request"
                /\ request' = messages'
                /\ last' = From(ln, Printing(Call("send", text, "pending", <<>>, FALSE, 1, names),
                                             MemoryUpdatedLines(names)))
                /\ UNCHANGED <<clean, turns>>
        /\ UNCHANGED apiKey

\* send_message called with one of the texts
Send(texts, maxLen) ==
    \E text \in texts, now \in Timestamps, w \in WriteOutcomes :
        SendCall(<<>>, text, now, w, maxLen)

SendMessage == Send(Texts, MaxHistory)

\* send_message with a text that may introduce the user, as the first
\* message of a conversation
SendPhrase == Send(PhraseTexts, 1)

\* variant: the failure return also puts the memory record and the memory
\* file back to what they were before the call
RolledBackWithMemory(outcome, lines) ==
    /\ messages' = Pop(messages)
    /\ pc' = "idle"
    /\ request' = <<>>
    /\ last' = Printing(Ended(outcome, <<>>, FALSE), lines)
    /\ clean' = FALSE
    /\ turns' = <<>>
    /\ memory' = last.memBefore
    /\ file' = last.fileBefore
    /\ UNCHANGED apiKey

\* the failure return of send_message: response_data is None, after
\* _make_api_request printed the lines
RolledBack(outcome, lines) ==
    /\ messages' = Pop(messages)
    /\ pc' = "idle"
    /\ request' = <<>>
    /\ last' = Printing(Ended(outcome, <<>>, FALSE), lines)
    /\ clean' = FALSE
    /\ turns' = <<>>
    /\ UNCHANGED <<apiKey, memory, file>>

\* requests.post raises Timeout
ReplyTimeout ==
    /\ pc = "request"
    /\ RolledBack("timeout", <<TimeoutDiagnostic>>)

\* raise_for_status raises HTTPError
ReplyHTTPError ==
    \E status \in ErrorStatuses :
        /\ pc = "request"
        /\ RolledBack(CASE status = 401 -> "http_401"
                        [] status = 429 -> "http_429"
                        [] OTHER -> "http_other",
                      <<HTTPErrorDiagnostic(status)>>)

\* requests.post raises another RequestException
ReplyNetworkError ==
    /\ pc = "request"
    /\ RolledBack("network", <<NetworkDiagnostic>>)

\* a success status whose body is JSON null: response.json() is None
ReplyNull ==
    \E body \in Bodies :
        /\ pc = "request"
        /\ body.shape = "null"
        /\ RolledBack("null_body", <<>>)

\* a success status whose body holds choices[0].message.content
ReplySuccess ==
    \E body \in Bodies :
        /\ pc = "request"
        /\ body.shape # "null"
        /\ ReplyLookup(body) = "content"
        /\ messages' = AddAssistantMessage(messages, body.content)
        /\ pc' = "idle"
        /\ request' = <<>>
        /\ last' = Ended("ok", <<body.content>>, FALSE)
        /\ turns' = IF clean THEN Append(turns, <<last.text, body.content>>) ELSE <<>>
        /\ UNCHANGED <<apiKey, memory, file, clean>>

\* a success status whose body lacks the structure: the subscripting raises
\* KeyError or IndexError, which send_message catches
ReplyMalformed ==
    \E body \in Bodies :
        /\ pc = "request"
        /\ body.shape # "null"
        /\ ReplyLookup(body) \in {"KeyError", "IndexError"}
        /\ pc' = "idle"
        /\ request' = <<>>
        /\ last' = Printing(Ended("malformed", <<>>, FALSE),
                            <<UnexpectedResponseDiagnostic>>)
        /\ clean' = FALSE
        /\ turns' = <<>>
        /\ UNCHANGED <<apiKey, memory, file, messages>>

\* a success status whose body is not a JSON object: the subscripting raises
\* TypeError, which send_message does not catch
ReplyTypeError ==
    \E body \in Bodies :
        /\ pc = "request"
        /\ body.shape # "null"
        /\ ReplyLookup(body) = "TypeError"
        /\ pc' = "idle"
        /\ request' = <<>>
        /\ last' = Ended("type_error", <<>>, TRUE)
        /\ clean' = FALSE
        /\ turns' = <<>>
        /\ UNCHANGED <<apiKey, memory, file, messages>>

\* variant: reset reuses the system prompt built at construction
ResetStale(mem) == <<messages[1]>>

\* ConversationManager.reset
Reset(mem) == FreshMessages(mem)

\* reset_conversation
ResetCall(ln) ==
    /\ pc = "idle"
    /\ messages' = Reset(memory)
    /\ last' = From(ln, Call("reset", "", "ok", <<>>, FALSE, 0, <<>>))
    /\ clean' = TRUE
    /\ turns' = <<>>
    /\ UNCHANGED <<apiKey, memory, file, pc, request>>

ResetConversation == ResetCall(<<>>)

\* forget_me: clear_memory, then reset unless the save raised
ForgetCall(ln, w) ==
    /\ pc = "idle"
    /\ memory' = EmptyDict
    /\ file' = SaveMemory(file, EmptyDict, w)
    /\ IF w = "ok"
       THEN /\ messages' = Reset(memory')
            /\ last' = From(ln, Call("forget", "", "ok", <<>>, FALSE, 0, <<>>))
            /\ clean' = TRUE
            /\ turns' = <<>>
       ELSE /\ last' = From(ln, Call("forget", "", "save_error", <<>>, TRUE, 0, <<>>))
            /\ UNCHANGED <<messages, clean, turns>>
    /\ UNCHANGED <<apiKey, pc, request>>

ForgetMe == \E w \in WriteOutcomes : ForgetCall(<<>>, w)

\* export_conversation with no filename: the file written, if any, is
\* recorded in last.written (<<>> when no file was written)
\* (ok: makedirs, open and json.dump all returned; the clock reading is an
\* input of every call, the path being computed first)
ExportCall(ln, now, ok) ==
    /\ pc = "idle"
    /\ last' = From(ln, Printing(
                   [Call("export", "", IF ok THEN "ok" ELSE "export_error",
                         <<>>, FALSE, 0, <<>>)
                    EXCEPT !.written =
                        IF ok THEN <<[path |-> ExportPath(now),
                                      content |-> JsonDumpMessages(messages)]>>
                        ELSE <<>>],
                   <<ExportReport(ok, ExportPath(now))>>))
    /\ UNCHANGED <<apiKey, memory, file, messages, pc, request, clean, turns>>

ExportConversation ==
    \E now \in Timestamps, w \in WriteOutcomes : ExportCall(<<>>, now, w = "ok")

\* show_memory
ShowCall(ln) ==
    /\ pc = "idle"
    /\ last' = From(ln, Call("show_memory", "", "ok", GetUserName(memory), FALSE, 0, <<>>))
    /\ UNCHANGED <<apiKey, memory, file, messages, pc, request, clean, turns>>

ShowMemory == ShowCall(<<>>)

(***************************************************************************)
(* The variant without a memory store (src/chatbot.py, src/conversation.py) *)
(***************************************************************************)
\* a constructed chatbot of the variant: no memory record, no memory file
InitPlain ==
    /\ apiKey \in {k \in ApiKeys : Validate(k)}
    /\ file = AbsentFile
    /\ memory = EmptyDict
    /\ messages = <<Message("system", PlainPrompt)>>
    /\ pc = "idle"
    /\ request = <<>>
    /\ last = [op |-> "init", text |-> "", outcome |-> "none", returned |-> <<>>,
               raised |-> FALSE, requests |-> 0, setCalls |-> <<>>,
               printed |-> <<>>, written |-> <<>>, before |-> messages, memBefore |-> memory,
               fileBefore |-> file, line |-> <<>>]
    /\ clean = TRUE
    /\ turns = <<>>

\* send_message with a non-blank text, up to requests.post: the user message
\* is appended and the request is issued
SendPlain ==
    \E text \in Texts :
        /\ pc = "idle"
        /\ Len(messages) <= MaxHistory
        /\ text \notin BlankTexts
        /\ messages' = AddUserMessage(messages, text)
        /\ pc' = "request"
        /\ request' = messages'
        /\ last' = Call("send", text, "pending", <<>>, FALSE, 1, <<>>)
        /\ UNCHANGED <<apiKey, memory, file, clean, turns>>

\* reset_conversation: reset keeps self.system_prompt
ResetPlain ==
    /\ pc = "idle"
    /\ messages' = <<Message("system", PlainPrompt)>>
    /\ last' = Call("reset", "", "ok", <<>>, FALSE, 0, <<>>)
    /\ clean' = TRUE
    /\ turns' = <<>>
    /\ UNCHANGED <<apiKey, memory, file, pc, request>>

\* export_conversation with no filename on a disk that takes every write:
\* open creates no directory, so it raises FileNotFoundError unless
\* data/conversations exists (dir)
ExportPlain ==
    \E now \in Timestamps, dir \in BOOLEAN : ExportCall(<<>>, now, dir)

(***************************************************************************)
(* main                                                                     *)
(***************************************************************************)
\* the process at the start of main: nothing loaded, nothing constructed
InitMain ==
    /\ apiKey \in ApiKeys
    /\ file \in InitialFiles \cup {ArrayFile}
    /\ memory = EmptyDict
    /\ messages = <<>>
    /\ pc = "start"
    /\ request = <<>>
    /\ last = [op |-> "init", text |-> "", outcome |-> "none", returned |-> <<>>,
               raised |-> FALSE, requests |-> 0, setCalls |-> <<>>,
               printed |-> <<>>, written |-> <<>>, before |-> messages, memBefore |-> memory,
               fileBefore |-> file, line |-> <<>>]
    /\ clean = TRUE
    /\ turns = <<>>

\* main when config.validate() is false: sys.exit(1)
ExitNoKey ==
    /\ pc = "start"
    /\ ~Validate(apiKey)
    /\ pc' = "exited"
    /\ last' = Printing(Call("main", "", "exit_1", <<>>, FALSE, 0, <<>>),
                        <<"ERROR: OPENAI_API_KEY environment variable not set.",
                          "Please create a .env file with your API key.">>)
    /\ UNCHANGED <<apiKey, memory, file, messages, request, clean, turns>>

\* main when config.validate() is true: OpenAIChatbot(config) loads the
\* memory file and builds the conversation; building the system prompt
\* calls self.memory.get, which raises AttributeError out of main when
\* json.load returned something that is not a dict
Startup ==
    LET mem == LoadMemory(file)
    IN  /\ pc = "start"
        /\ Validate(apiKey)
        /\ memory' = mem
        /\ IF IsDict(mem)
           THEN /\ messages' = FreshMessages(mem)
                /\ pc' = "idle"
                /\ last' = Call("startup", "", "ok", <<>>, FALSE, 0, <<>>)
           ELSE /\ pc' = "crashed"
                /\ last' = Call("startup", "", "attribute_error", <<>>, TRUE, 0, <<>>)
                /\ UNCHANGED messages
        /\ UNCHANGED <<apiKey, file, request, clean, turns>>

\* variant: the line is compared as typed, neither stripped nor lower-cased
DirectiveAsTyped(l) == l

\* user_input.lower(), of the line stripped
Directive(l) == Lower(Strip(l, Whitespace))

\* the directives main recognizes
Directives == {"/quit", "/exit", "/reset", "/export", "/memory", "/forget"}

\* input("You: ").strip() and its lower-cased form, for each line
Stripped == [l \in Lines |-> Strip(l, Whitespace)]

DirectiveOf == [l \in Lines |-> Directive(l)]

\* the answers for which confirm.lower() == 'yes'
Confirmed == {c \in Confirms : Lower(c) = "yes"}

\* a line that is empty once stripped: continue
MainSkip ==
    \E l \in Lines :
        /\ pc = "idle"
        /\ Stripped[l] = ""
        /\ last' = From(<<l>>, Call("input", "", "skipped", <<>>, FALSE, 0, <<>>))
        /\ UNCHANGED <<apiKey, memory, file, messages, pc, request, clean, turns>>

\* /quit or /exit: break
MainQuit ==
    \E l \in Lines :
        /\ pc = "idle"
        /\ DirectiveOf[l] \in {"/quit", "/exit"}
        /\ pc' = "exited"
        /\ last' = From(<<l>>, Call("quit", "", "exit_0", <<>>, FALSE, 0, <<>>))
        /\ UNCHANGED <<apiKey, memory, file, messages, request, clean, turns>>

\* /reset
MainReset == \E l \in Lines : DirectiveOf[l] = "/reset" /\ ResetCall(<<l>>)

\* /export
MainExport ==
    \E l \in Lines, now \in Timestamps, w \in WriteOutcomes :
        DirectiveOf[l] = "/export" /\ ExportCall(<<l>>, now, w = "ok")

\* /memory
MainMemory == \E l \in Lines : DirectiveOf[l] = "/memory" /\ ShowCall(<<l>>)

\* /forget: forget_me only when the line read next, lower-cased, is "yes"
MainForget ==
    \E l \in Lines, confirm \in Confirms, w \in WriteOutcomes :
        /\ DirectiveOf[l] = "/forget"
        /\ IF confirm \in Confirmed
           THEN ForgetCall(<<l, confirm>>, w)
           ELSE /\ pc = "idle"
                /\ w = "ok"
                /\ last' = From(<<l, confirm>>, Call("input", "", "declined", <<>>, FALSE, 0, <<>>))
                /\ UNCHANGED <<apiKey, memory, file, messages, pc, request, clean, turns>>

\* any other line: send_message(user_input), the line stripped
MainSend ==
    \E l \in Lines, now \in Timestamps, w \in WriteOutcomes :
        /\ Stripped[l] # ""
        /\ DirectiveOf[l] \notin Directives
        /\ SendCall(<<l>>, Stripped[l], now, w, MaxHistory)

\* KeyboardInterrupt at the prompt: break
MainInterrupt ==
    /\ pc = "idle"
    /\ pc' = "exited"
    /\ last' = Call("interrupt", "", "exit_0", <<>>, FALSE, 0, <<>>)
    /\ UNCHANGED <<apiKey, memory, file, messages, request, clean, turns>>

Next ==
    \/ SendBlank
    \/ SendMessage
    \/ ReplyTimeout
    \/ ReplyHTTPError
    \/ ReplyNetworkError
    \/ ReplyNull
    \/ ReplySuccess
    \/ ReplyMalformed
    \/ ReplyTypeError
    \/ ResetConversation
    \/ ForgetMe
    \/ ExportConversation
    \/ ShowMemory

Spec == Init /\ [][Next]_vars

(***************************************************************************)
(* Properties                                                               *)
(***************************************************************************)
\* a send has returned (or raised) and is the call made last
SendEnded == pc = "idle" /\ last.op = "send"

\* outcomes of a send whose request failed in transport or with an HTTP status
RequestFailures == {"timeout", "http_401", "http_429", "http_other", "network"}

\* C1: a send whose request ends in a timeout, an HTTP error status or a
\* network failure leaves the history equal to the history before the call.
C1_FailedRequestRestoresHistory ==
    (SendEnded /\ last.outcome \in RequestFailures) => messages = last.before

\* a rate-limited send in the middle of a conversation, rolled back
C1_Witness ==
    /\ SendEnded
    /\ last.outcome = "http_429"
    /\ Len(last.before) = 3
    /\ messages = last.before

\* C2: a success status whose body lacks choices[0].message.content makes
\* send return a failure and roll the user message back, so the history
\* equals the history before the call.
C2_MalformedReplyRollsBack ==
    (SendEnded /\ last.outcome \in {"malformed", "type_error"})
        => messages = last.before

\* system message, then (user, assistant) pairs
PairedHistory(msgs) ==
    /\ Len(msgs) % 2 = 1
    /\ msgs[1].role = "system"
    /\ \A i \in 2..Len(msgs) :
          msgs[i].role = IF i % 2 = 0 THEN "user" ELSE "assistant"

\* C3: whenever no send is in progress the history is the system message
\* followed by (user, assistant) pairs: no user message lacks its reply.
C3_HistoryIsPairs == pc = "idle" => PairedHistory(messages)

\* C4: in every state, also in the middle of a send, the history is
\* non-empty and its first message has role system.
C4_SystemMessageFirst == Len(messages) >= 1 /\ messages[1].role = "system"

\* the first send of a conversation failed and was rolled back: only the
\* system message is left
C4_Witness ==
    /\ SendEnded
    /\ last.outcome \in RequestFailures
    /\ Len(last.before) = 1
    /\ Len(messages) = 1

\* C5: after n successful sends from a fresh or freshly reset conversation
\* the history has 1 + 2n messages: the system message, then the user and
\* assistant message of each turn, in the order of the turns.
C5_LengthAfterSuccessfulSends ==
    (pc = "idle" /\ clean) =>
        /\ Len(messages) = 1 + 2 * Len(turns)
        /\ messages[1].role = "system"
        /\ \A k \in 1..Len(turns) :
              /\ messages[2 * k] = Message("user", turns[k][1])
              /\ messages[2 * k + 1] = Message("assistant", turns[k][2])

\* two successful turns
C5_Witness == pc = "idle" /\ clean /\ Len(turns) = 2 /\ Len(messages) = 5

\* the remembered-facts block of a system prompt ("" when it has none)
FactsBlock(content) ==
    IF Contains(content, MemoryLabel)
    THEN Slice(content, Index(content, MemoryLabel) + Len(MemoryLabel))
    ELSE ""

\* C6: reset leaves exactly one message, of role system, regenerated from
\* the memory as it is at the reset: a remembered name is in its
\* remembered-facts block.
C6_ResetRegeneratesSystemMessage ==
    last.op = "reset" =>
        /\ Len(messages) = 1
        /\ messages[1].role = "system"
        /\ \A i \in 1..Len(GetUserName(memory)) :
              Contains(FactsBlock(messages[1].content), GetUserName(memory)[i])
        /\ GetUserName(memory) = <<>> => FactsBlock(messages[1].content) = ""

\* a reset after a name was learned in a conversation whose system message
\* had no remembered-facts block
C6_Witness ==
    /\ last.op = "reset"
    /\ GetUserName(memory) = <<"Bob">>
    /\ Len(last.before) > 1
    /\ FactsBlock(last.before[1].content) = ""
    /\ Contains(FactsBlock(messages[1].content), "Bob")

\* C7: after forget, get_user_name returns nothing, the history is a single
\* system message, and that message has no remembered-facts block.
C7_ForgetClearsAndResets ==
    last.op = "forget" =>
        /\ GetUserName(memory) = <<>>
        /\ Len(messages) = 1
        /\ messages[1].role = "system"
        /\ FactsBlock(messages[1].content) = ""

\* every character of the text is whitespace
OnlyWhitespace(text) == \A i \in 1..Len(text) : Char(text, i) \in Whitespace

\* C8: send with an empty or whitespace-only text returns the prompt for
\* input, issues no request and leaves history, memory and memory file
\* unchanged.
C8_BlankSendChangesNothing ==
    (last.op = "send" /\ OnlyWhitespace(last.text)) =>
        /\ pc = "idle"
        /\ request = <<>>
        /\ last.requests = 0
        /\ last.returned = <<EnterValidMessage>>
        /\ messages = last.before
        /\ memory = last.memBefore
        /\ file = last.fileBefore

\* a whitespace-only send in the middle of a conversation
C8_Witness ==
    /\ last.op = "send"
    /\ last.text = " \t"
    /\ Len(messages) = 3
    /\ last.returned = <<EnterValidMessage>>

\* the least element of a non-empty set of numbers
Least(S) == CHOOSE i \in S : \A j \in S : i <= j

\* the greatest element of a non-empty set of numbers
Greatest(S) == CHOOSE i \in S : \A j \in S : i >= j

\* the phrases (by priority) that occur in the text
PhrasesIn(text) ==
    {i \in 1..Len(Patterns) : Contains(Lower(text), Patterns[i])}

\* the phrases that occur in the text and are followed by an accepted name
PhrasesWithName(text) ==
    {i \in PhrasesIn(text) :
        /\ WordsAfter(text, Patterns[i]) # <<>>
        /\ AcceptName(CandidateName(WordsAfter(text, Patterns[i])[1]))}

\* the memory and its file are as they were before the call
MemoryUntouched == memory = last.memBefore /\ file = last.fileBefore

\* a send of a non-blank text is the call made last
SentText == last.op = "send" /\ last.outcome # "blank"

\* the names stored for each text if only the highest-priority phrase
\* occurring in it is used
HighestPhraseNames ==
    [t \in Texts \cup PhraseTexts |->
        LET P == PhrasesIn(t)
        IN  IF P # {} /\ Least(P) \in PhrasesWithName(t)
            THEN <<CandidateName(WordsAfter(t, Patterns[Least(P)])[1])>>
            ELSE <<>>]

\* the names stored for each text if the first phrase, by priority, that is
\* followed by an accepted name is used
FirstAcceptedNames ==
    [t \in Texts \cup PhraseTexts |->
        LET A == PhrasesWithName(t)
        IN  IF A # {}
            THEN <<CandidateName(WordsAfter(t, Patterns[Least(A)])[1])>>
            ELSE <<>>]

\* C9 as stated: only the highest-priority phrase occurring in the text is
\* used; if its candidate is missing or rejected the memory is unchanged.
C9_OnlyHighestPriorityPhrase ==
    SentText =>
        /\ last.setCalls = HighestPhraseNames[last.text]
        /\ HighestPhraseNames[last.text] = <<>> => MemoryUntouched

\* C9 amended: the phrases are tried in priority order and the name of the
\* first one that occurs in the text and is followed by an accepted
\* candidate is stored; phrases whose candidate is missing or rejected are
\* skipped; with no such phrase the memory is unchanged; at most one
\* set_user_name happens per message.
C9_FirstPhraseWithAcceptedName ==
    SentText =>
        /\ Len(last.setCalls) <= 1
        /\ last.setCalls = FirstAcceptedNames[last.text]
        /\ IF FirstAcceptedNames[last.text] # <<>>
           THEN GetUserName(memory) = last.setCalls
           ELSE MemoryUntouched

\* the rejected candidate of "my name is " is skipped and "call me " is
\* used; a lower-priority phrase that is leftmost in the text is not used
C9_Witness ==
    /\ SentText
    /\ last.text = "my name is 7, call me Bob"
    /\ last.memBefore = EmptyDict
    /\ GetUserName(memory) = <<"Bob">>

\* the text between the first and the last character that is not one of
\* . , ! ?
Unpunctuated(word) ==
    LET keep == {i \in 1..Len(word) : Char(word, i) \notin Punctuation}
    IN  IF keep = {} THEN ""
        ELSE SubSeq(word, Least(keep), Greatest(keep))

\* first letter upper-cased, the other characters as they are
FirstLetterUpper(s) ==
    IF s = "" THEN "" ELSE UpperChar(Char(s, 1)) \o SubSeq(s, 2, Len(s))

\* first letter upper-cased, the other letters lower-cased
FirstUpperRestLower(s) ==
    IF s = "" THEN ""
    ELSE UpperChar(Char(s, 1)) \o Lower(SubSeq(s, 2, Len(s)))

OnlyLetters(s) == \A i \in 1..Len(s) : Char(s, i) \in UpperChars \cup LowerChars

\* the names stored for a text when each tried token is turned into the
\* candidate name(token) and the first accepted candidate is stored
StoredWith(text, name(_)) ==
    LET A == {i \in PhrasesIn(text) :
                /\ WordsAfter(text, Patterns[i]) # <<>>
                /\ Len(name(WordsAfter(text, Patterns[i])[1])) > 1
                /\ OnlyLetters(name(WordsAfter(text, Patterns[i])[1]))}
    IN  IF A = {} THEN <<>>
        ELSE <<name(WordsAfter(text, Patterns[Least(A)])[1])>>

\* the candidate as C10 states it: trailing punctuation stripped, first
\* letter capitalized
NameAsStated(word) == FirstLetterUpper(RStrip(word, Punctuation))

\* the candidate as amended: punctuation stripped at both ends, first
\* letter upper-cased, the others lower-cased
NameAsAmended(word) == FirstUpperRestLower(Unpunctuated(word))

\* the names stored for each text with the candidate as stated
StatedNames == [t \in Texts \cup PhraseTexts |-> StoredWith(t, NameAsStated)]

\* the names stored for each text with the candidate as amended
AmendedNames == [t \in Texts \cup PhraseTexts |-> StoredWith(t, NameAsAmended)]

\* C10 as stated: only trailing punctuation is stripped from the token; it
\* is stored iff the stripped token is longer than 1 and alphabetic, and the
\* value stored is the stripped token with its first letter capitalized.
C10_TrailingStripFirstLetterCapital ==
    SentText => last.setCalls = StatedNames[last.text]

\* C10 amended: '.', ',', '!' and '?' are stripped from both ends of the
\* token and the candidate is the stripped token with its first letter
\* upper-cased and its other letters lower-cased; it is stored iff that
\* candidate is longer than 1 and alphabetic, and it is the value stored
\* ("Hi, my name is Carlos" stores "Carlos", "I am 7" and "im bob!" store
\* nothing).
C10_BothEndsStripRestLowered ==
    SentText =>
        /\ last.setCalls = AmendedNames[last.text]
        /\ last.setCalls # <<>> => GetUserName(memory) = last.setCalls
        /\ last.text = "Hi, my name is Carlos" => last.setCalls = <<"Carlos">>
        /\ last.text \in {"I am 7", "im bob!"} =>
              last.setCalls = <<>> /\ MemoryUntouched

\* a name with an inner capital is stored with that letter lower-cased
C10_Witness ==
    /\ SentText
    /\ last.text = "call me McDonald"
    /\ GetUserName(memory) = <<"Mcdonald">>
    /\ GetUserName(last.memBefore) # <<"Mcdonald">>

\* C12 as stated: every mutation of the memory record is on disk when the
\* mutating call ends, so in every state the record a restarted process
\* would load from the memory file equals the in-memory record, and with it
\* the user name getUserName returns.
C12_DiskEqualsMemory ==
    /\ LoadMemory(file) = memory
    /\ GetUserName(LoadMemory(file)) = GetUserName(memory)

\* the kind of failure of a failed request, as the claims name it
FailureKind ==
    [timeout |-> "timeout", http_401 |-> "invalid_credential",
     http_429 |-> "rate_limit", http_other |-> "http_error",
     network |-> "network_error"]

\* the diagnostic printed for each kind of failed request
FailureDiagnostic ==
    [timeout |-> "ERROR: Request timed out. Please try again.",
     http_401 |-> "ERROR: Invalid API key.",
     http_429 |-> "ERROR: Rate limit exceeded.",
     http_other |-> "ERROR: HTTP error: ",
     network |-> "ERROR: Network error: "]

\* C11 as stated: the value send returns for a failed request tells the
\* kind of the failure (invalid credential, rate limit, other HTTP error,
\* timeout, network error).
C11_ReturnTellsFailureKind ==
    (SendEnded /\ last.outcome \in RequestFailures)
        => last.returned = <<FailureKind[last.outcome]>>

\* C11 amended: send returns the same value, None, for every kind of failed
\* request and raises nothing; the kind is told only by the diagnostic the
\* request prints, which differs for 401, 429, other HTTP errors, timeouts
\* and network errors.
C11_DiagnosticTellsFailureKind ==
    (SendEnded /\ last.outcome \in RequestFailures) =>
        /\ last.returned = <<>>
        /\ ~last.raised
        /\ last.printed # <<>>
        /\ last.printed[Len(last.printed)] = FailureDiagnostic[last.outcome]
        /\ \A k \in RequestFailures \ {last.outcome} :
              last.printed[Len(last.printed)] # FailureDiagnostic[k]

\* a rate-limited send: None returned, the rate-limit diagnostic printed
C11_Witness ==
    /\ SendEnded
    /\ last.outcome = "http_429"
    /\ last.returned = <<>>
    /\ last.printed = <<"ERROR: Rate limit exceeded.">>

\* json.load of the text of an exported file: <<>> when a string literal of
\* it is not valid, <<messages>> otherwise
ParsedOf ==
    [t \in {JsonStringOf[s] : s \in MessageTexts} |-> JsonParseString(t)]

JsonLoadMessages(content) ==
    IF \E i \in 1..Len(content) :
          ParsedOf[content[i].role] = <<>> \/ ParsedOf[content[i].content] = <<>>
    THEN <<>>
    ELSE <<[i \in 1..Len(content) |->
              Message(ParsedOf[content[i].role][1], ParsedOf[content[i].content][1])]>>

IsDigits(s) == \A i \in 1..Len(s) : Char(s, i) \in {Digits[d] : d \in 1..10}

\* conversation_<YYYYMMDD>_<HHMMSS>.json in a directory conversations
IsTimestampedPath(path) ==
    LET name == Slice(path, Index(path, "conversations/conversation_")
                            + Len("conversations/conversation_"))
    IN  /\ Contains(path, "conversations/conversation_")
        /\ Len(name) = 20
        /\ IsDigits(SubSeq(name, 1, 8))
        /\ Char(name, 9) = "_"
        /\ IsDigits(SubSeq(name, 10, 15))
        /\ SubSeq(name, 16, 20) = ".json"

\* C14 as stated: every export with no path writes a file at a generated
\* timestamped path, reports that path, and the content of the file decodes
\* to the history at the moment of the call (roles, contents, order, the
\* system message first).
C14_ExportWritesHistory ==
    last.op = "export" =>
        /\ last.written # <<>>
        /\ IsTimestampedPath(last.written[1].path)
        /\ last.printed = <<"Conversation exported to: " \o last.written[1].path>>
        /\ JsonLoadMessages(last.written[1].content) = <<last.before>>

\* C15: export changes neither the history nor the memory record (nor the
\* memory file), whether the write succeeds or fails; a failed write raises
\* nothing and ends nothing: it is reported by an error line, and no
\* success line is printed.
C15_ExportChangesNothing ==
    last.op = "export" =>
        /\ messages = last.before
        /\ MemoryUntouched
        /\ pc = "idle"
        /\ ~last.raised
        /\ last.outcome = "export_error" =>
              /\ last.written = <<>>
              /\ last.printed = <<"ERROR: Failed to export: ">>
        /\ last.outcome = "ok" => last.written # <<>>

\* a failed export of a conversation with an exchange and a remembered name
C15_Witness ==
    /\ last.op = "export"
    /\ last.outcome = "export_error"
    /\ Len(messages) >= 3
    /\ GetUserName(memory) # <<>>
    /\ last.printed = <<"ERROR: Failed to export: ">>

\* each line, stripped of surrounding whitespace and lower-cased
LowerStripped == [l \in Lines |-> Lower(Strip(l, Whitespace))]

\* the lines that are a recognized directive once stripped and lower-cased
DirectiveLines ==
    {l \in Lines : LowerStripped[l] \in
        {"/reset", "/export", "/memory", "/forget", "/quit", "/exit"}}

\* no directive line, as typed or stripped, is the content of a user message
NoDirectiveIn(msgs) ==
    \A i \in 1..Len(msgs) :
        msgs[i].role = "user" =>
            \A l \in DirectiveLines :
                msgs[i].content # l /\ msgs[i].content # Strip(l, Whitespace)

\* the operation each directive invokes
DirectiveOperation ==
    [d \in {"/reset", "/export", "/memory", "/forget"} |->
        CASE d = "/reset" -> "reset"
          [] d = "/export" -> "export"
          [] d = "/memory" -> "show_memory"
          [] d = "/forget" -> "forget"]

\* the call did nothing: no state changed, nothing was requested
NothingDone ==
    /\ last.op = "input"
    /\ messages = last.before
    /\ MemoryUntouched
    /\ last.requests = 0
    /\ pc = "idle"

\* C16 as stated: a line that is a recognized directive is never appended to
\* the history and causes no request; it invokes its operation (reset,
\* export, show memory, clear memory, terminate), and every other line that
\* is not empty (once stripped) is forwarded to send.
C16_DirectiveInvokesOperation ==
    /\ NoDirectiveIn(messages)
    /\ NoDirectiveIn(request)
    /\ last.line # <<>> =>
          LET l == last.line[1]
              d == LowerStripped[l]
          IN  /\ l \in DirectiveLines => last.requests = 0 /\ pc # "request"
              /\ d \in {"/quit", "/exit"} => pc = "exited"
              /\ d \in DOMAIN DirectiveOperation => last.op = DirectiveOperation[d]
              /\ (l \notin DirectiveLines /\ d # "") => last.op = "send"

\* C16 amended: a line that, stripped of surrounding whitespace and
\* lower-cased, is a recognized directive is never appended to the history
\* and causes no request; /quit and /exit terminate, /reset, /export and
\* /memory invoke reset, export and show memory; /forget reads one more
\* line and clears the memory only if that line, lower-cased, is "yes",
\* otherwise it does nothing; a line that is empty once stripped does
\* nothing; every other line is forwarded to send, stripped.
C16_DirectivesDispatched ==
    /\ NoDirectiveIn(messages)
    /\ NoDirectiveIn(request)
    /\ last.line # <<>> =>
          LET l == last.line[1]
              d == LowerStripped[l]
          IN  /\ l \in DirectiveLines => last.requests = 0 /\ pc # "request"
              /\ d \in {"/quit", "/exit"} => pc = "exited" /\ last.op = "quit"
              /\ d \in {"/reset", "/export", "/memory"} =>
                    last.op = DirectiveOperation[d]
              /\ d = "/forget" =>
                    /\ Len(last.line) = 2
                    /\ Lower(last.line[2]) = "yes" => last.op = "forget"
                    /\ Lower(last.line[2]) # "yes" => NothingDone
              /\ d = "" => NothingDone
              /\ (l \notin DirectiveLines /\ d # "") =>
                    /\ last.op = "send"
                    /\ last.text = Strip(l, Whitespace)
                    /\ last.outcome # "blank"

\* /Reset typed with surrounding blanks after an exchange: the history is
\* reset and nothing was sent
C16_Witness ==
    /\ last.line = <<" /Reset ">>
    /\ last.op = "reset"
    /\ Len(last.before) >= 3
    /\ Len(messages) = 1
    /\ pc = "idle"

\* C17: when the credential is absent (unset or empty) at startup, the
\* process does nothing but exit with status 1: at every moment it is either
\* still at its start or has exited with that status, no memory file was
\* loaded or written, no conversation exists, no line was read and no
\* request was sent; having exited, it takes no further step.
C17_NoCredentialExitsFirst ==
    (apiKey = <<>> \/ apiKey = <<"">>) =>
        /\ pc \in {"start", "exited"}
        /\ pc = "exited" => (last.op = "main" /\ last.outcome = "exit_1")
        /\ last.op # "startup"
        /\ memory = EmptyDict
        /\ file = last.fileBefore
        /\ messages = <<>>
        /\ request = <<>>
        /\ last.requests = 0
        /\ last.line = <<>>

\* exited with status 1 although a memory file with a name was there to load
C17_Witness ==
    /\ apiKey = <<>>
    /\ pc = "exited"
    /\ last.outcome = "exit_1"
    /\ file.state = "json"
    /\ "user_name" \in DOMAIN file.data

\* C18: the system message at element 0 changes only in a step of reset or
\* of clearing the memory: every step of a send (blank, failed or
\* successful, storing a name or not), of an export and of showMemory
\* leaves element 0 as it was.
C18_SystemMessageChangesOnlyOnReset ==
    [][messages'[1] # messages[1] => last'.op \in {"reset", "forget"}]_vars

\* a successful send that stored the name Bob: the memory holds it, the
\* system message is still the one without remembered facts
C18_Witness ==
    /\ SendEnded
    /\ last.outcome = "ok"
    /\ last.setCalls = <<"Bob">>
    /\ GetUserName(memory) = <<"Bob">>
    /\ messages[1] = last.before[1]
    /\ messages[1].content = BasePrompt

\* C19 as stated: a send that ends because the save of a detected name
\* raised leaves the history equal to its value before the call.
C19_SaveErrorRestoresHistory ==
    (SendEnded /\ last.outcome = "save_error") => messages = last.before

\* the ways a send ends without a reply after its request was issued
FailedRequests ==
    RequestFailures \cup {"null_body", "malformed", "type_error"}

\* C20: when the text of a send holds an accepted name and its request then
\* fails (timeout, HTTP error, network error, malformed response), the name
\* is still in the in-memory record and in the memory file after the call,
\* and getUserName returns it; a rolled-back failure restored the history.
C20_FailedSendKeepsName ==
    (SendEnded /\ last.outcome \in FailedRequests /\ last.setCalls # <<>>) =>
        LET name == last.setCalls[Len(last.setCalls)]
        IN  /\ GetUserName(memory) = <<name>>
            /\ memory["user_name"] = name
            /\ file.state = "json"
            /\ GetUserName(LoadMemory(file)) = <<name>>
            /\ last.outcome \in RequestFailures => messages = last.before

\* a send introducing Bob to a session that knew no name timed out: the
\* history is rolled back, the name is kept
C20_Witness ==
    /\ SendEnded
    /\ last.outcome = "timeout"
    /\ last.setCalls = <<"Bob">>
    /\ GetUserName(last.memBefore) = <<>>
    /\ GetUserName(memory) = <<"Bob">>
    /\ GetUserName(LoadMemory(file)) = <<"Bob">>
    /\ messages = last.before

\* every user message of msgs but the last is followed by an assistant
\* message: a user message that is not belongs to an earlier send that failed
NoEarlierFailedSendIn(msgs) ==
    \A i \in 1..(Len(msgs) - 1) :
        msgs[i].role = "user" => msgs[i + 1].role = "assistant"

\* C21 as stated: each send of a text that is not blank issues exactly one
\* request, whose messages are the history before the call followed by the
\* new user message, in unchanged order, and hold no message of an earlier
\* failed send.
C21_OneRequestOfHistoryAndMessage ==
    SentText =>
        /\ last.requests = 1
        /\ pc = "request" =>
              /\ request = Append(last.before, Message("user", last.text))
              /\ NoEarlierFailedSendIn(request)

\* C13 as stated: loading the memory store never raises and never aborts
\* the session; from a memory file that is absent, unreadable, unparsable or
\* holds JSON that is not an object the loaded record is the empty record.
C13_LoadNeverAborts ==
    /\ pc # "crashed"
    /\ (last.op = "startup" /\ file.state # "json") => memory = EmptyDict

\* single sends of introduction texts, for the name extractor
NextNames ==
    \/ SendPhrase
    \/ ReplyTimeout
    \/ ReplySuccess

SpecNames == Init /\ [][NextNames]_vars

\* the variant without a memory store
NextPlain ==
    \/ SendBlank
    \/ SendPlain
    \/ ReplyTimeout
    \/ ReplyHTTPError
    \/ ReplyNetworkError
    \/ ReplyNull
    \/ ReplySuccess
    \/ ReplyMalformed
    \/ ReplyTypeError
    \/ ResetPlain
    \/ ExportPlain

SpecPlain == InitPlain /\ [][NextPlain]_vars

\* the process running main, from its start
NextMain ==
    \/ ExitNoKey
    \/ Startup
    \/ MainSkip
    \/ MainQuit
    \/ MainReset
    \/ MainExport
    \/ MainMemory
    \/ MainForget
    \/ MainSend
    \/ MainInterrupt
    \/ ReplyTimeout
    \/ ReplyHTTPError
    \/ ReplyNetworkError
    \/ ReplyNull
    \/ ReplySuccess
    \/ ReplyMalformed
    \/ ReplyTypeError

SpecMain == InitMain /\ [][NextMain]_vars
====
